---- MODULE Spec2Model ----
(***************************************************************************)
(* Control-M lineage dashboard (ControlM_Visualizer/app1.py, app4.py,      *)
(* app10.py): parse a job export, derive producer -> consumer edges, build *)
(* a directed graph, select the lineage of seed jobs and assign layout      *)
(* levels.                                                                  *)
(*                                                                          *)
(* Names are sequences of characters so that str.strip() can be modelled   *)
(* by what it does.  A document is a record: wellformed says whether       *)
(* ET.parse accepts it, jobs is the sequence of JOB elements.              *)
(***************************************************************************)
EXTENDS Integers, Sequences, FiniteSets, TLC

VARIABLES doc, df_jobs, df_edges, G_full, search_list, depth_limit,
          G_display, level_map, error, pc, earlier_nodes, variant,
          l_pc, l_step, driver, quits, l_out, l_raised,
          b_pc, data_lines, b_i, typed, reported

dashVars == <<doc, df_jobs, df_edges, G_full, search_list, depth_limit,
              G_display, level_map, error, pc, earlier_nodes, variant>>

(* sauce_login_test.py *)
loginVars == <<l_pc, l_step, driver, quits, l_out, l_raised>>

(* data_entry_bot.py *)
botVars == <<b_pc, data_lines, b_i, typed, reported>>

vars == <<dashVars, loginVars, botVars>>

(* what a run of the dashboard script never writes *)
restVars == <<variant, loginVars, botVars>>

----------------------------------------------------------------------------
(* Bounds of the explored inputs *)

MaxJobs == 3
MaxConds == 4
MaxAttrConds == 2
MaxSeeds == 1
MaxDepth == 1
MaxSessionJobs == 2
MaxOver == 2
MaxLines == 2
MaxLineLen == 2

(* app10.py:374  if len(G_full) > 500 *)
FullViewLimit == 500

(* app1.py:324  if len(G_full.nodes) > 300 *)
FullViewLimit_app1 == 300

(* the variant of the dashboard script that is running *)
Variants == {"app1", "app10"}

LimitOf(v) == IF v = "app1" THEN FullViewLimit_app1 ELSE FullViewLimit

----------------------------------------------------------------------------
(* Input universes *)

NameA == <<"A">>
NameSpA == <<" ", "A">>
NameB == <<"B">>
NameC == <<"C">>
NameD == <<"D">>

NamePool == <<NameA, NameSpA, NameB, NameC, NameD>>

Min(a, b) == IF a < b THEN a ELSE b

PoolSize == Min(MaxJobs, Len(NamePool))

JobNames == {NamePool[i] : i \in 1..PoolSize}

AttrNames == {NameA, NameB}

CondOrder == <<"c1", "c2">>

Conds == {CondOrder[i] : i \in 1..Len(CondOrder)}

Signs == {"+", "-"}

Dates == {"ODAT", "PREV"}

OutElems == [NAME : Conds, SIGN : Signs, ODATE : Dates]

InElems == [NAME : Conds, ODATE : Dates]

SeqsUpTo(S, n) == UNION {[1..k -> S] : k \in 0..n}

(* Structure-rich documents: distinct job names, every condition element   *)
(* produced ("+") for this run's date ("ODAT"), at most MaxConds elements. *)
StructSlots(k) == (1..k) \X {"OUT", "IN"} \X Conds

StructDoc(k, S) ==
    [i \in 1..k |->
        [JOBNAME |-> NamePool[i],
         OUTCOND |-> LET cs == SelectSeq(CondOrder, LAMBDA c : <<i, "OUT", c>> \in S)
                     IN [j \in 1..Len(cs) |-> [NAME |-> cs[j], SIGN |-> "+", ODATE |-> "ODAT"]],
         INCOND  |-> LET cs == SelectSeq(CondOrder, LAMBDA c : <<i, "IN", c>> \in S)
                     IN [j \in 1..Len(cs) |-> [NAME |-> cs[j], ODATE |-> "ODAT"]]]]

StructJobLists ==
    UNION {{StructDoc(k, S) : S \in {T \in SUBSET StructSlots(k) : Cardinality(T) <= MaxConds}}
           : k \in 0..PoolSize}

(* Attribute-rich documents: a producer job named A followed by a consumer  *)
(* job named A or B; the OUTCOND and INCOND elements carry any condition    *)
(* name, sign and date qualifier, at most MaxAttrConds elements together.   *)
AttrDoc(consumer, outs, ins) ==
    <<[JOBNAME |-> NameA, OUTCOND |-> outs, INCOND |-> <<>>],
      [JOBNAME |-> consumer, OUTCOND |-> <<>>, INCOND |-> ins]>>

AttrJobLists ==
    {AttrDoc(n, p[1], p[2]) :
        n \in AttrNames,
        p \in {q \in SeqsUpTo(OutElems, MaxAttrConds) \X SeqsUpTo(InElems, MaxAttrConds) :
                 Len(q[1]) + Len(q[2]) <= MaxAttrConds}}

(* A JOB element without JOBNAME attribute: job.get("JOBNAME") is None.   *)
(* NoName stands for None; it is no string and equals no job name.         *)
NoName == <<"None">>

UnnamedJob == [JOBNAME |-> NoName, OUTCOND |-> <<>>, INCOND |-> <<>>]

UnnamedJobLists ==
    {<<UnnamedJob>>,
     <<UnnamedJob, [JOBNAME |-> NameA, OUTCOND |-> <<>>, INCOND |-> <<>>]>>}

(* The two-job document JOB1 -COND_A-> JOB2 *)
NameJOB1 == <<"J", "O", "B", "1">>
NameJOB2 == <<"J", "O", "B", "2">>

ExampleJobs ==
    <<[JOBNAME |-> NameJOB1,
       OUTCOND |-> <<[NAME |-> "COND_A", SIGN |-> "+", ODATE |-> "ODAT"]>>,
       INCOND |-> <<>>],
      [JOBNAME |-> NameJOB2,
       OUTCOND |-> <<>>,
       INCOND |-> <<[NAME |-> "COND_A", ODATE |-> "ODAT"]>>]>>

CondUniverse == Conds \cup {"COND_A"}

JobLists == StructJobLists \cup AttrJobLists \cup UnnamedJobLists \cup {ExampleJobs}

Docs == [wellformed : BOOLEAN, jobs : JobLists]

(* Documents of a session of several uploads: up to MaxSessionJobs jobs    *)
(* that produce or await the first condition, and one malformed document.  *)
SessionSlots(k) == {s \in StructSlots(k) : s[3] = CondOrder[1]}

SessionJobLists ==
    UNION {{StructDoc(k, S) : S \in SUBSET SessionSlots(k)}
           : k \in 0..Min(MaxSessionJobs, PoolSize)}

SessionDocs ==
    [wellformed : {TRUE}, jobs : SessionJobLists] \cup
    {[wellformed |-> FALSE, jobs |-> ExampleJobs]}

(* Large exports: n jobs, the first producing the condition the second     *)
(* awaits, the others without conditions; n lies within MaxOver of a       *)
(* full-view limit.                                                         *)
DigitChars == <<"0", "1", "2", "3", "4", "5", "6", "7", "8", "9">>

RECURSIVE Decimal(_)
Decimal(i) ==
    IF i < 10 THEN <<DigitChars[i + 1]>>
    ELSE Decimal(i \div 10) \o <<DigitChars[(i % 10) + 1]>>

LargeName(i) == <<"J">> \o Decimal(i)

LargeDoc(n) ==
    [i \in 1..n |->
        IF i = 1
        THEN [JOBNAME |-> NameA,
              OUTCOND |-> <<[NAME |-> CondOrder[1], SIGN |-> "+", ODATE |-> "ODAT"]>>,
              INCOND |-> <<>>]
        ELSE IF i = 2
        THEN [JOBNAME |-> NameSpA,
              OUTCOND |-> <<>>,
              INCOND |-> <<[NAME |-> CondOrder[1], ODATE |-> "ODAT"]>>]
        ELSE [JOBNAME |-> LargeName(i), OUTCOND |-> <<>>, INCOND |-> <<>>]]

LargeSizes ==
    {L + k : L \in {FullViewLimit_app1, FullViewLimit}, k \in (0 - MaxOver)..MaxOver}

LargeDocs == [wellformed : {TRUE}, jobs : {LargeDoc(n) : n \in LargeSizes}]

(* depth=None is <<>>, depth=d is <<d>> *)
None == <<>>

Depths == {None} \cup {<<d>> : d \in 1..MaxDepth}

(* app1's get_full_lineage_subgraph takes no depth *)
DepthChoices(v) == IF v = "app1" THEN {None} ELSE Depths

RECURSIVE SetToSeq(_)
SetToSeq(S) ==
    IF S = {} THEN <<>>
    ELSE LET x == CHOOSE y \in S : TRUE IN <<x>> \o SetToSeq(S \ {x})

SeedLists == {SetToSeq(S) : S \in {T \in SUBSET JobNames : Cardinality(T) <= MaxSeeds}}

(* seed lists handed to the lineage function when it is called directly *)
EngineSeedLists == SeedLists \cup {<<NameJOB2>>}

----------------------------------------------------------------------------
(* str.strip(): remove leading and trailing whitespace *)

IsSpace(ch) == ch \in {" ", "\n"}

RECURSIVE lstrip(_)
lstrip(s) ==
    IF s = <<>> THEN s
    ELSE IF IsSpace(Head(s)) THEN lstrip(Tail(s)) ELSE s

RECURSIVE rstrip(_)
rstrip(s) ==
    IF s = <<>> THEN s
    ELSE IF IsSpace(s[Len(s)]) THEN rstrip(SubSeq(s, 1, Len(s) - 1)) ELSE s

(* variant: the seed is taken as typed *)
strip_Identity(s) == s

strip(s) == rstrip(lstrip(s))

----------------------------------------------------------------------------
(* parse_controlm_xml *)

(* variant: the sign of an OUTCOND is not looked at *)
RealOut_AnySign(out) == out.ODATE = "ODAT"

RealOut(out) == out.SIGN = "+" /\ out.ODATE = "ODAT"

RealIn(incon) == incon.ODATE = "ODAT"

CondNames(elems) == [j \in 1..Len(elems) |-> elems[j].NAME]

current_job(job) ==
    [JobName |-> job.JOBNAME,
     InConditions |-> CondNames(SelectSeq(job.INCOND, RealIn)),
     OutConditions |-> CondNames(SelectSeq(job.OUTCOND, RealOut))]

(* variant: a job without any real condition is left out of the job list *)
jobs_data_DropUnconditioned(jobs) ==
    SelectSeq([i \in 1..Len(jobs) |-> current_job(jobs[i])],
              LAMBDA j : j.InConditions # <<>> \/ j.OutConditions # <<>>)

jobs_data(jobs) == [i \in 1..Len(jobs) |-> current_job(jobs[i])]

(* what a loop over parts[lo..hi] appends to a list, part after part; the  *)
(* range is halved so that a document of hundreds of jobs can be evaluated *)
RECURSIVE Appended(_, _, _)
Appended(parts, lo, hi) ==
    IF lo > hi THEN <<>>
    ELSE IF lo = hi THEN parts[lo]
    ELSE LET mid == (lo + hi) \div 2
         IN Appended(parts, lo, mid) \o Appended(parts, mid + 1, hi)

(* conditions_map[c]: the job name appended once per real OUTCOND named c, *)
(* in document order                                                        *)
Producers(jd, c) ==
    Appended([i \in 1..Len(jd) |->
                 LET outs == SelectSeq(jd[i].OutConditions, LAMBDA n : n = c)
                 IN [j \in 1..Len(outs) |-> jd[i].JobName]],
             1, Len(jd))

conditions_map(jd) ==
    LET keys == {c \in CondUniverse : Producers(jd, c) # <<>>}
    IN [c \in keys |-> Producers(jd, c)]

(* variant: a condition is joined to its first producer only *)
EdgesFor_FirstProducer(consumer, cond, cmap) ==
    IF cond \in DOMAIN cmap
    THEN <<[Source |-> cmap[cond][1], Target |-> consumer, Condition |-> cond]>>
    ELSE <<>>

EdgesFor(consumer, cond, cmap) ==
    IF cond \in DOMAIN cmap
    THEN [j \in 1..Len(cmap[cond]) |->
            [Source |-> cmap[cond][j], Target |-> consumer, Condition |-> cond]]
    ELSE <<>>

RECURSIVE EdgesOfJob(_, _, _)
EdgesOfJob(consumer, inconds, cmap) ==
    IF inconds = <<>> THEN <<>>
    ELSE EdgesFor(consumer, Head(inconds), cmap) \o EdgesOfJob(consumer, Tail(inconds), cmap)

(* variant: the edges of a job are derived while the map is still being   *)
(* filled, from the producers of the jobs read so far                      *)
edges_SinglePass(jd, cmap) ==
    Appended([i \in 1..Len(jd) |->
                 EdgesOfJob(jd[i].JobName, jd[i].InConditions,
                            conditions_map(SubSeq(jd, 1, i)))],
             1, Len(jd))

edges(jd, cmap) ==
    Appended([i \in 1..Len(jd) |-> EdgesOfJob(jd[i].JobName, jd[i].InConditions, cmap)],
             1, Len(jd))

(* variant: the JOB elements read before the syntax error are kept *)
parse_controlm_xml_Partial(d) ==
    LET jd == jobs_data(d.jobs)
    IN [jobs |-> jd, edges |-> edges(jd, conditions_map(jd)), error |-> ~d.wellformed]

parse_controlm_xml(d) ==
    IF ~d.wellformed
    THEN [jobs |-> <<>>, edges |-> <<>>, error |-> TRUE]
    ELSE LET jd == jobs_data(d.jobs)
         IN [jobs |-> jd, edges |-> edges(jd, conditions_map(jd)), error |-> FALSE]

----------------------------------------------------------------------------
(* networkx DiGraph: a node set and an adjacency map pair -> label *)

EmptyGraph == [nodes |-> {}, adj |-> <<>>]

add_nodes_from(G, ns) == [G EXCEPT !.nodes = G.nodes \cup ns]

(* variant: an edge from a node to itself is not stored *)
add_edge_NoSelfLoop(G, u, v, label) ==
    IF u = v THEN [G EXCEPT !.nodes = G.nodes \cup {u}]
    ELSE [nodes |-> G.nodes \cup {u, v},
          adj |-> [p \in DOMAIN G.adj \cup {<<u, v>>} |->
                     IF p = <<u, v>> THEN label ELSE G.adj[p]]]

add_edge(G, u, v, label) ==
    [nodes |-> G.nodes \cup {u, v},
     adj |-> [p \in DOMAIN G.adj \cup {<<u, v>>} |->
                IF p = <<u, v>> THEN label ELSE G.adj[p]]]

RECURSIVE AddEdges(_, _)
AddEdges(G, rows) ==
    IF rows = <<>> THEN G
    ELSE AddEdges(add_edge(G, Head(rows).Source, Head(rows).Target, Head(rows).Condition),
                  Tail(rows))

(* variant: every record is a node of its own, a repeated name is marked *)
all_jobs_PerRecord(jd) ==
    {jd[i].JobName \o (IF \E j \in 1..(i - 1) : jd[j].JobName = jd[i].JobName
                       THEN <<"#">> ELSE <<>>)
     : i \in 1..Len(jd)}

all_jobs(jd) == {jd[i].JobName : i \in 1..Len(jd)}

(* sorted() compares the names pairwise: None against a str is a TypeError *)
sorted_raises(names) == NoName \in names /\ names # {NoName}

(* networkx: "None cannot be a node" (ValueError) *)
add_nodes_raises(ns) == NoName \in ns

(* variant: nodes come from the edge rows only *)
build_graph_EdgesOnly(rows, jobnames) == AddEdges(EmptyGraph, rows)

build_graph(rows, jobnames) == AddEdges(add_nodes_from(EmptyGraph, jobnames), rows)

Edges(G) == DOMAIN G.adj

reverse(G) ==
    [nodes |-> G.nodes,
     adj |-> [p \in {<<e[2], e[1]>> : e \in Edges(G)} |-> G.adj[<<p[2], p[1]>>]]]

(* variant: an edge survives when either endpoint is kept *)
subgraph_EitherEnd(G, ns) ==
    [nodes |-> G.nodes \cap ns,
     adj |-> [p \in {e \in Edges(G) : e[1] \in ns \/ e[2] \in ns} |-> G.adj[p]]]

subgraph(G, ns) ==
    [nodes |-> G.nodes \cap ns,
     adj |-> [p \in {e \in Edges(G) : e[1] \in ns /\ e[2] \in ns} |-> G.adj[p]]]

neighbors(G, n) == {v \in G.nodes : <<n, v>> \in Edges(G)}

in_degree(G, n) == Cardinality({u \in G.nodes : <<u, n>> \in Edges(G)})

(* single_source_shortest_path_length(G, n, cutoff): breadth-first levels *)
RECURSIVE bfs(_, _, _, _)
bfs(G, frontier, seen, cutoff) ==
    IF cutoff = 0 \/ frontier = {} THEN seen
    ELSE LET nextlevel == (UNION {neighbors(G, n) : n \in frontier}) \ seen
         IN bfs(G, nextlevel, seen \cup nextlevel, cutoff - 1)

descendants(G, n) == bfs(G, {n}, {n}, Cardinality(G.nodes)) \ {n}

(* variant: the graph is not turned around *)
ancestors_Forward(G, n) == bfs(G, {n}, {n}, Cardinality(G.nodes)) \ {n}

ancestors(G, n) == bfs(reverse(G), {n}, {n}, Cardinality(G.nodes)) \ {n}

(* variant: the search stops one level early *)
ego_graph_nodes_Short(G, n, radius) == bfs(G, {n}, {n}, radius - 1)

(* variant: only the nodes exactly radius edges away join the centre *)
ego_graph_nodes_Ring(G, n, radius) ==
    {n} \cup (bfs(G, {n}, {n}, radius) \ bfs(G, {n}, {n}, radius - 1))

ego_graph_nodes(G, n, radius) == bfs(G, {n}, {n}, radius)

----------------------------------------------------------------------------
(* filter_lineage / get_lineage_subgraph / get_full_lineage_subgraph *)

(* variant: nodes.add(seed) is missing *)
SeedNodes_WithoutSeed(G, seed, depth) ==
    IF seed \in G.nodes
    THEN IF depth = None
         THEN ancestors(G, seed) \cup descendants(G, seed)
         ELSE ego_graph_nodes(reverse(G), seed, depth[1]) \cup
              ego_graph_nodes(G, seed, depth[1])
    ELSE {}

SeedNodes(G, seed, depth) ==
    IF seed \in G.nodes
    THEN {seed} \cup
         (IF depth = None
          THEN ancestors(G, seed) \cup descendants(G, seed)
          ELSE ego_graph_nodes(reverse(G), seed, depth[1]) \cup
               ego_graph_nodes(G, seed, depth[1]))
    ELSE {}

RECURSIVE LineageNodes(_, _, _)
LineageNodes(G, seeds, depth) ==
    IF seeds = <<>> THEN {}
    ELSE SeedNodes(G, strip(Head(seeds)), depth) \cup LineageNodes(G, Tail(seeds), depth)

(* variant: an empty seed list means "no filter" *)
filter_lineage_AllWhenNoSeeds(G, seeds, depth) ==
    IF seeds = <<>> THEN G ELSE subgraph(G, LineageNodes(G, seeds, depth))

filter_lineage(G, seeds, depth) == subgraph(G, LineageNodes(G, seeds, depth))

----------------------------------------------------------------------------
(* nx.topological_generations and the level map of the renderer *)

RECURSIVE generations(_, _, _, _)
generations(G, indegree_map, zero_indegree, acc) ==
    IF zero_indegree = {}
    THEN [topo |-> acc, unfeasible |-> \E v \in G.nodes : indegree_map[v] > 0]
    ELSE LET dec == [v \in G.nodes |->
                        indegree_map[v] -
                        Cardinality({u \in zero_indegree : v \in neighbors(G, u)})]
             nextgen == {v \in G.nodes : indegree_map[v] > 0 /\ dec[v] = 0}
         IN generations(G, dec, nextgen, Append(acc, zero_indegree))

topological_generations(G) ==
    generations(G, [v \in G.nodes |-> in_degree(G, v)],
                {v \in G.nodes : in_degree(G, v) = 0}, <<>>)

LayerOf(topo, n) == CHOOSE i \in 1..Len(topo) : n \in topo[i]

(* variant: layers are numbered from 1 *)
levels_FromOne(G) ==
    LET r == topological_generations(G)
    IN IF r.unfeasible
       THEN [n \in G.nodes |-> 0]
       ELSE [n \in G.nodes |-> LayerOf(r.topo, n)]

(* variant: the layers produced before the cycle was met are kept *)
levels_KeepPartial(G) ==
    LET r == topological_generations(G)
    IN [n \in G.nodes |->
          IF \E i \in 1..Len(r.topo) : n \in r.topo[i]
          THEN LayerOf(r.topo, n) - 1 ELSE 0]

levels(G) ==
    LET r == topological_generations(G)
    IN IF r.unfeasible
       THEN [n \in G.nodes |-> 0]
       ELSE [n \in G.nodes |-> LayerOf(r.topo, n) - 1]

----------------------------------------------------------------------------
(* The dashboard script *)

(* variant: the limit itself already counts as too large *)
TooLarge_Inclusive(G, v) == Cardinality(G.nodes) >= LimitOf(v)

TooLarge(G, v) == Cardinality(G.nodes) > LimitOf(v)

Fresh ==
    /\ doc = [wellformed |-> TRUE, jobs |-> <<>>]
    /\ df_jobs = <<>>
    /\ df_edges = <<>>
    /\ G_full = EmptyGraph
    /\ search_list = <<>>
    /\ depth_limit = None
    /\ G_display = EmptyGraph
    /\ level_map = <<>>
    /\ error = FALSE
    /\ pc = "idle"
    /\ earlier_nodes = {}

(* run_sauce_login_test has not been called *)
LoginIdle ==
    /\ l_pc = "start"
    /\ l_step = 1
    /\ driver = "none"
    /\ quits = 0
    /\ l_out = <<>>
    /\ l_raised = "none"

(* run_data_entry_bot has not been called *)
BotIdle ==
    /\ b_pc = "start"
    /\ data_lines = <<>>
    /\ b_i = 0
    /\ typed = <<>>
    /\ reported = None

Init == Fresh /\ variant = "app10" /\ LoginIdle /\ BotIdle

Upload ==
    /\ pc = "idle"
    /\ \E d \in Docs : doc' = d
    /\ pc' = "uploaded"
    /\ UNCHANGED <<df_jobs, df_edges, G_full, search_list, depth_limit,
                   G_display, level_map, error, earlier_nodes>>
    /\ UNCHANGED restVars

Parse ==
    /\ pc = "uploaded"
    /\ LET r == parse_controlm_xml(doc)
       IN /\ df_jobs' = r.jobs
          /\ df_edges' = r.edges
          /\ error' = r.error
    /\ pc' = "parsed"
    /\ UNCHANGED <<doc, G_full, search_list, depth_limit, G_display, level_map,
                   earlier_nodes>>
    /\ UNCHANGED restVars

(* all_jobs = sorted(...); G_full = build_graph(df_edges, all_jobs).  An   *)
(* exception raised here is caught nowhere: the script run ends with it.   *)
BuildGraph ==
    /\ pc = "parsed"
    /\ df_jobs # <<>>
    /\ IF sorted_raises(all_jobs(df_jobs)) \/ add_nodes_raises(all_jobs(df_jobs))
       THEN /\ pc' = "crashed"
            /\ G_full' = G_full
       ELSE /\ pc' = "built"
            /\ G_full' = build_graph(df_edges, all_jobs(df_jobs))
    /\ UNCHANGED <<doc, df_jobs, df_edges, search_list, depth_limit,
                   G_display, level_map, error, earlier_nodes>>
    /\ UNCHANGED restVars

(* variant: the lineage is cut out of the graph that was passed in *)
Filter_PruneInPlace ==
    /\ pc = "built"
    /\ \E seeds \in SeedLists, depth \in DepthChoices(variant) :
          /\ search_list' = seeds
          /\ depth_limit' = depth
          /\ G_display' = IF seeds # <<>>
                          THEN filter_lineage(G_full, seeds, depth)
                          ELSE IF TooLarge(G_full, variant)
                               THEN EmptyGraph
                               ELSE G_full
          /\ G_full' = IF seeds # <<>> THEN G_display' ELSE G_full
    /\ level_map' = <<>>
    /\ pc' = "filtered"
    /\ UNCHANGED <<doc, df_jobs, df_edges, error, earlier_nodes>>
    /\ UNCHANGED restVars

Filter ==
    /\ pc = "built"
    /\ \E seeds \in SeedLists, depth \in DepthChoices(variant) :
          /\ search_list' = seeds
          /\ depth_limit' = depth
          /\ G_display' = IF seeds # <<>>
                          THEN filter_lineage(G_full, seeds, depth)
                          ELSE IF TooLarge(G_full, variant)
                               THEN EmptyGraph
                               ELSE G_full
    /\ level_map' = <<>>
    /\ pc' = "filtered"
    /\ UNCHANGED <<doc, df_jobs, df_edges, G_full, error, earlier_nodes>>
    /\ UNCHANGED restVars

Render ==
    /\ pc = "filtered"
    /\ G_display.nodes # {}
    /\ level_map' = levels(G_display)
    /\ pc' = "rendered"
    /\ UNCHANGED <<doc, df_jobs, df_edges, G_full, search_list, depth_limit,
                   G_display, error, earlier_nodes>>
    /\ UNCHANGED restVars

Next == Upload \/ Parse \/ BuildGraph \/ Filter \/ Render

Spec == Init /\ [][Next]_vars

----------------------------------------------------------------------------
(* The lineage function called directly on the built graph, with any seed  *)
(* list, the empty one included                                             *)

(* variant: G.reverse(copy=False) turned around the graph that was passed in *)
CallLineage_ReverseInPlace ==
    /\ pc = "built"
    /\ \E seeds \in EngineSeedLists, depth \in Depths :
          /\ search_list' = seeds
          /\ depth_limit' = depth
          /\ G_display' = filter_lineage(G_full, seeds, depth)
    /\ G_full' = reverse(G_full)
    /\ pc' = "called"
    /\ UNCHANGED <<doc, df_jobs, df_edges, level_map, error, earlier_nodes>>
    /\ UNCHANGED restVars

CallLineage ==
    /\ pc = "built"
    /\ \E seeds \in EngineSeedLists, depth \in Depths :
          /\ search_list' = seeds
          /\ depth_limit' = depth
          /\ G_display' = filter_lineage(G_full, seeds, depth)
    /\ pc' = "called"
    /\ UNCHANGED <<doc, df_jobs, df_edges, G_full, level_map, error, earlier_nodes>>
    /\ UNCHANGED restVars

NextEngine == Upload \/ Parse \/ BuildGraph \/ CallLineage

SpecEngine == Init /\ [][NextEngine]_vars

----------------------------------------------------------------------------
(* A session: the user changes the selection (the script runs again on the *)
(* cached parse result) or uploads another file (the script runs again     *)
(* from the top).  earlier_nodes records the job names of the graphs built *)
(* from the files uploaded before the current one.                         *)

RunComplete ==
    \/ pc = "rendered"
    \/ pc = "filtered" /\ G_display.nodes = {}
    \/ pc = "parsed" /\ df_jobs = <<>>
    \/ pc = "crashed"

(* variant: what the previous run computed stays bound when a file arrives *)
Load_KeepResults ==
    /\ pc = "idle" \/ RunComplete
    /\ \E d \in SessionDocs : doc' = d
    /\ search_list' = <<>>
    /\ depth_limit' = None
    /\ earlier_nodes' = earlier_nodes \cup G_full.nodes
    /\ pc' = "uploaded"
    /\ UNCHANGED <<df_jobs, df_edges, G_full, G_display, level_map, error>>
    /\ UNCHANGED restVars

Load ==
    /\ pc = "idle" \/ RunComplete
    /\ \E d \in SessionDocs : doc' = d
    /\ df_jobs' = <<>>
    /\ df_edges' = <<>>
    /\ G_full' = EmptyGraph
    /\ search_list' = <<>>
    /\ depth_limit' = None
    /\ G_display' = EmptyGraph
    /\ level_map' = <<>>
    /\ error' = FALSE
    /\ earlier_nodes' = earlier_nodes \cup G_full.nodes
    /\ pc' = "uploaded"
    /\ UNCHANGED restVars

Requery ==
    /\ pc \in {"filtered", "rendered"}
    /\ RunComplete
    /\ G_full' = build_graph(df_edges, all_jobs(df_jobs))
    /\ \E seeds \in SeedLists, depth \in DepthChoices(variant) :
          /\ search_list' = seeds
          /\ depth_limit' = depth
          /\ G_display' = IF seeds # <<>>
                          THEN filter_lineage(G_full', seeds, depth)
                          ELSE IF TooLarge(G_full', variant)
                               THEN EmptyGraph
                               ELSE G_full'
    /\ level_map' = <<>>
    /\ pc' = "filtered"
    /\ UNCHANGED <<doc, df_jobs, df_edges, error, earlier_nodes>>
    /\ UNCHANGED restVars

NextSession == Load \/ Parse \/ BuildGraph \/ Filter \/ Render \/ Requery

SpecSession == Init /\ [][NextSession]_vars

----------------------------------------------------------------------------
(* Either variant of the script on a large export, up to the choice of the *)
(* displayed graph                                                          *)

InitLimit == Fresh /\ variant \in Variants /\ LoginIdle /\ BotIdle

UploadLarge ==
    /\ pc = "idle"
    /\ \E d \in LargeDocs : doc' = d
    /\ pc' = "uploaded"
    /\ UNCHANGED <<df_jobs, df_edges, G_full, search_list, depth_limit,
                   G_display, level_map, error, earlier_nodes>>
    /\ UNCHANGED restVars

NextLimit == UploadLarge \/ Parse \/ BuildGraph \/ Filter

SpecLimit == InitLimit /\ [][NextLimit]_vars

----------------------------------------------------------------------------
(* sauce_login_test.py: run_sauce_login_test.  Every Selenium call may     *)
(* return, raise TimeoutException, raise another Exception, or be cut      *)
(* short by a BaseException such as KeyboardInterrupt, which no except     *)
(* clause of the function catches.                                          *)

(* the calls of the try block, in order, with what is printed after each   *)
LoginCalls ==
    <<[call |-> "driver.get", then |-> <<"Navigated to">>],
      [call |-> "driver.set_window_size", then |-> <<"Entering Username...">>],
      [call |-> "wait.until(USERNAME_FIELD)", then |-> <<>>],
      [call |-> "user_input.send_keys", then |-> <<"Entering Password...">>],
      [call |-> "wait.until(PASSWORD_FIELD)", then |-> <<>>],
      [call |-> "pass_input.send_keys", then |-> <<"Clicking Login...">>],
      [call |-> "wait.until(LOGIN_BUTTON)", then |-> <<>>],
      [call |-> "login_btn.click", then |-> <<"Verifying successful login...">>],
      [call |-> "wait.until(PRODUCTS_HEADER)", then |-> <<"SUCCESS">>],
      [call |-> "driver.current_url", then |-> <<"Current URL">>],
      [call |-> "time.sleep", then |-> <<>>]>>

Outcomes(call) ==
    IF call = "time.sleep" THEN {"returns", "interrupt"}
    ELSE {"returns", "timeout", "error", "interrupt"}

CreateDriver ==
    /\ l_pc = "start"
    /\ \E outcome \in {"returns", "error"} :
          IF outcome = "returns"
          THEN /\ driver' = "open"
               /\ l_out' = <<"Starting">>
               /\ l_pc' = "try"
          ELSE /\ driver' = "none"
               /\ l_out' = <<"Starting", "Error initializing Chrome driver">>
               /\ l_pc' = "done"
    /\ UNCHANGED <<l_step, quits, l_raised>>
    /\ UNCHANGED <<dashVars, botVars>>

TryCall ==
    /\ l_pc = "try"
    /\ \E outcome \in Outcomes(LoginCalls[l_step].call) :
          IF outcome = "returns"
          THEN /\ l_out' = l_out \o LoginCalls[l_step].then
               /\ l_raised' = l_raised
               /\ IF l_step = Len(LoginCalls)
                  THEN l_pc' = "finally" /\ l_step' = l_step
                  ELSE l_pc' = "try" /\ l_step' = l_step + 1
          ELSE /\ l_out' = l_out
               /\ l_step' = l_step
               /\ l_raised' = outcome
               /\ l_pc' = IF outcome = "timeout" THEN "except TimeoutException"
                          ELSE IF outcome = "error" THEN "except Exception"
                          ELSE "finally"
    /\ UNCHANGED <<driver, quits>>
    /\ UNCHANGED <<dashVars, botVars>>

(* variant: the handler returns, as if the clean-up stood at the end of the *)
(* try block                                                                *)
ExceptTimeout_Return ==
    /\ l_pc = "except TimeoutException"
    /\ l_out' = l_out \o <<"FAILURE: element timeout">>
    /\ l_raised' = "none"
    /\ l_pc' = "done"
    /\ UNCHANGED <<l_step, driver, quits>>
    /\ UNCHANGED <<dashVars, botVars>>

ExceptTimeout ==
    /\ l_pc = "except TimeoutException"
    /\ l_out' = l_out \o <<"FAILURE: element timeout">>
    /\ l_raised' = "none"
    /\ l_pc' = "finally"
    /\ UNCHANGED <<l_step, driver, quits>>
    /\ UNCHANGED <<dashVars, botVars>>

ExceptException ==
    /\ l_pc = "except Exception"
    /\ l_out' = l_out \o <<"CRITICAL ERROR">>
    /\ l_raised' = "none"
    /\ l_pc' = "finally"
    /\ UNCHANGED <<l_step, driver, quits>>
    /\ UNCHANGED <<dashVars, botVars>>

(* finally: driver.quit(); print("Browser closed.").  A pending            *)
(* BaseException or an exception of quit() itself leaves the function.     *)
Finally ==
    /\ l_pc = "finally"
    /\ quits' = quits + 1
    /\ \E outcome \in {"returns", "error"} :
          IF outcome = "returns"
          THEN /\ driver' = "closed"
               /\ l_out' = l_out \o <<"Browser closed.">>
               /\ l_raised' = l_raised
          ELSE /\ driver' = "open"
               /\ l_out' = l_out
               /\ l_raised' = "error"
    /\ l_pc' = "done"
    /\ UNCHANGED l_step
    /\ UNCHANGED <<dashVars, botVars>>

NextLogin == CreateDriver \/ TryCall \/ ExceptTimeout \/ ExceptException \/ Finally

SpecLogin == Init /\ [][NextLogin]_vars

----------------------------------------------------------------------------
(* data_entry_bot.py: run_data_entry_bot.  A line of the data file is a    *)
(* sequence of characters ending with the newline that readlines() keeps.  *)

LineChars == {" ", ",", "x"}

FileLines == {l \o <<"\n">> : l \in SeqsUpTo(LineChars, MaxLineLen)}

DataFiles == SeqsUpTo(FileLines, MaxLines)

(* str.split(","): the fields between the commas *)
RECURSIVE split(_)
split(s) ==
    IF \A k \in 1..Len(s) : s[k] # "," THEN <<s>>
    ELSE LET c == CHOOSE k \in 1..Len(s) : s[k] = "," /\ \A j \in 1..(k - 1) : s[j] # ","
         IN <<SubSeq(s, 1, c - 1)>> \o split(SubSeq(s, c + 1, Len(s)))

(* [item.strip() for item in line.split(',')] *)
items(line) == LET parts == split(line) IN [k \in 1..Len(parts) |-> strip(parts[k])]

(* f"{name}, {age}" *)
full_entry(name, age) == name \o <<",", " ">> \o age

(* with open(DATA_FILE) ...: the file is missing, empty, or holds lines *)
ReadFile ==
    /\ b_pc = "start"
    /\ \E found \in BOOLEAN, f \in DataFiles :
          IF found /\ f # <<>>
          THEN /\ data_lines' = f
               /\ b_pc' = "notepad"
          ELSE /\ data_lines' = <<>>
               /\ b_pc' = "done"
    /\ UNCHANGED <<b_i, typed, reported>>
    /\ UNCHANGED <<dashVars, loginVars>>

(* os.startfile: an exception is printed and the run goes on *)
OpenNotepad ==
    /\ b_pc = "notepad"
    /\ b_i' = 1
    /\ b_pc' = "loop"
    /\ UNCHANGED <<data_lines, typed, reported>>
    /\ UNCHANGED <<dashVars, loginVars>>

(* one pass of the for loop *)
EnterLine ==
    /\ b_pc = "loop"
    /\ b_i <= Len(data_lines)
    /\ LET line == strip(data_lines[b_i])
       IN IF line = <<>>
          THEN typed' = typed
          ELSE IF Len(items(line)) # 2
          THEN typed' = typed
          ELSE typed' = Append(typed, full_entry(items(line)[1], items(line)[2]))
    /\ b_i' = b_i + 1
    /\ UNCHANGED <<b_pc, data_lines, reported>>
    /\ UNCHANGED <<dashVars, loginVars>>

(* print(f"Successfully processed {len(data_lines)} records.") *)
Report ==
    /\ b_pc = "loop"
    /\ b_i > Len(data_lines)
    /\ reported' = <<Len(data_lines)>>
    /\ b_pc' = "done"
    /\ UNCHANGED <<data_lines, b_i, typed>>
    /\ UNCHANGED <<dashVars, loginVars>>

NextBot == ReadFile \/ OpenNotepad \/ EnterLine \/ Report

SpecBot == Init /\ [][NextBot]_vars

----------------------------------------------------------------------------
(* Vocabulary of the properties, stated over the document and plain sets   *)

Parsed == pc \notin {"idle", "uploaded"}

Built == pc \in {"built", "filtered", "rendered", "called"}

Queried == pc \in {"filtered", "rendered"} /\ search_list # <<>>

Range(s) == {s[i] : i \in 1..Len(s)}

Compose(R, S) == {<<p[1][1], p[2][2]>> : p \in {q \in R \X S : q[1][2] = q[2][1]}}

RECURSIVE TransitiveClosure(_)
TransitiveClosure(R) ==
    LET R2 == R \cup Compose(R, R)
    IN IF R2 = R THEN R ELSE TransitiveClosure(R2)

IsAcyclic(G) == \A n \in G.nodes : <<n, n>> \notin TransitiveClosure(Edges(G))

TransAncestors(G, s) == {u \in G.nodes : <<u, s>> \in TransitiveClosure(Edges(G))} \ {s}

TransDescendants(G, s) == {v \in G.nodes : <<s, v>> \in TransitiveClosure(Edges(G))} \ {s}

(* the nodes reachable from S along at most d edges of E *)
RECURSIVE WithinHops(_, _, _)
WithinHops(E, S, d) ==
    IF d = 0 THEN S
    ELSE WithinHops(E, S \cup {e[2] : e \in {f \in E : f[1] \in S}}, d - 1)

Flip(E) == {<<e[2], e[1]>> : e \in E}

PresentSeeds == Range(search_list) \cap G_full.nodes

Max(S) == CHOOSE x \in S : \A y \in S : y <= x

RECURSIVE LongestPathTo(_, _)
LongestPathTo(G, n) ==
    LET preds == {u \in G.nodes : <<u, n>> \in Edges(G)}
    IN IF preds = {} THEN 0
       ELSE 1 + Max({LongestPathTo(G, u) : u \in preds})

----------------------------------------------------------------------------
(* C1: the derived edge list holds an edge (A, B, C) exactly when some job *)
(* named A has an OUTCOND C with sign "+" and date "ODAT" and some job     *)
(* named B has an INCOND C with date "ODAT"; any other sign or date        *)
(* qualifier contributes no edge.                                           *)
ExpectedEdges(jobs) ==
    {<<jobs[i].JOBNAME, jobs[j].JOBNAME, c>> : <<i, j, c>> \in
        {t \in (1..Len(jobs)) \X (1..Len(jobs)) \X CondUniverse :
            /\ \E k \in 1..Len(jobs[t[1]].OUTCOND) :
                  /\ jobs[t[1]].OUTCOND[k].NAME = t[3]
                  /\ jobs[t[1]].OUTCOND[k].SIGN = "+"
                  /\ jobs[t[1]].OUTCOND[k].ODATE = "ODAT"
            /\ \E k \in 1..Len(jobs[t[2]].INCOND) :
                  /\ jobs[t[2]].INCOND[k].NAME = t[3]
                  /\ jobs[t[2]].INCOND[k].ODATE = "ODAT"}}

C1_EdgeIffRealOutAndRealIn ==
    (Parsed /\ doc.wellformed) =>
        {<<r.Source, r.Target, r.Condition>> : r \in Range(df_edges)} = ExpectedEdges(doc.jobs)

C1_Witness ==
    /\ pc = "parsed"
    /\ doc.wellformed
    /\ \E r \in Range(df_edges) : r.Source # r.Target
    /\ \E i \in 1..Len(doc.jobs) : doc.jobs[i].OUTCOND # <<>> /\ doc.jobs[i].INCOND # <<>>

(* C2: with unbounded depth the selected nodes are exactly the present     *)
(* seeds with all their transitive ancestors and descendants.               *)
C2_UnboundedLineageIsReachability ==
    (Queried /\ depth_limit = None) =>
        G_display.nodes =
            UNION {{s} \cup TransAncestors(G_full, s) \cup TransDescendants(G_full, s)
                   : s \in PresentSeeds}

(* C3: with depth d the selected nodes are exactly the present seeds with  *)
(* the nodes at most d edges upstream or downstream of one.                 *)
C3_BoundedLineageIsWithinHops ==
    (Queried /\ depth_limit # None) =>
        G_display.nodes =
            UNION {WithinHops(Edges(G_full), {s}, depth_limit[1]) \cup
                   WithinHops(Flip(Edges(G_full)), {s}, depth_limit[1])
                   : s \in PresentSeeds}

(* C4: every job name of the job list is a node of the built graph and     *)
(* both endpoints of every edge are nodes.                                  *)
C4_JobsAndEndpointsAreNodes ==
    Built =>
        /\ \A i \in 1..Len(df_jobs) : df_jobs[i].JobName \in G_full.nodes
        /\ \A e \in Edges(G_full) : e[1] \in G_full.nodes /\ e[2] \in G_full.nodes

C4_Witness ==
    /\ pc = "built"
    /\ Edges(G_full) # {}
    /\ \E i \in 1..Len(df_jobs) :
          \A e \in Edges(G_full) : e[1] # df_jobs[i].JobName /\ e[2] # df_jobs[i].JobName

(* C5: every edge record keeps its own edge in the built graph, carrying   *)
(* its own condition label, also when another record joins the same pair.  *)
C5_EveryRecordKeepsItsLabel ==
    Built =>
        \A r \in Range(df_edges) :
            /\ <<r.Source, r.Target>> \in Edges(G_full)
            /\ G_full.adj[<<r.Source, r.Target>>] = r.Condition

(* C6: a malformed document parses to an empty job list and an empty edge  *)
(* list, and then no graph is built and nothing is displayed.               *)
C6_MalformedYieldsNothing ==
    (Parsed /\ ~doc.wellformed) =>
        /\ df_jobs = <<>>
        /\ df_edges = <<>>
        /\ error
        /\ pc = "parsed"
        /\ G_full = EmptyGraph
        /\ G_display = EmptyGraph
        /\ level_map = <<>>

C6_Witness ==
    /\ pc = "parsed"
    /\ ~doc.wellformed
    /\ ExpectedEdges(doc.jobs) # {}

(* C7: the lineage of a seed list equals the lineage of the seeds that are *)
(* nodes of the graph.                                                      *)
C7_AbsentSeedsAreSkipped ==
    Queried =>
        G_display = filter_lineage(G_full,
                                   SelectSeq(search_list, LAMBDA s : s \in G_full.nodes),
                                   depth_limit)

C9_CycleFallsBackToLevelZero ==
    (pc = "rendered" /\ ~IsAcyclic(G_display)) =>
        /\ DOMAIN level_map = G_display.nodes
        /\ \A n \in G_display.nodes : level_map[n] = 0

C9_Witness ==
    /\ pc = "rendered"
    /\ ~IsAcyclic(G_display)
    /\ \E e \in Edges(G_display) :
          /\ \A u \in G_display.nodes : <<u, e[1]>> \notin Edges(G_display)
          /\ \A u \in G_display.nodes : <<u, e[2]>> \in Edges(G_display) => u = e[1]
          /\ e[1] # e[2]

(* C10: the lineage subgraph is the induced subgraph: it holds an edge     *)
(* exactly when the full graph holds it and both endpoints are selected.    *)
C10_LineageIsInducedSubgraph ==
    Queried =>
        /\ G_display.nodes \subseteq G_full.nodes
        /\ Edges(G_display) =
              {e \in Edges(G_full) : e[1] \in G_display.nodes /\ e[2] \in G_display.nodes}
        /\ \A e \in Edges(G_display) : G_display.adj[e] = G_full.adj[e]

C10_Witness ==
    /\ pc = "filtered"
    /\ search_list # <<>>
    /\ Edges(G_display) # {}
    /\ \E e \in Edges(G_full) : e[1] \in G_display.nodes /\ e[2] \notin G_display.nodes

(* C11: for every graph, seed list and depth, the lineage node set holds   *)
(* every seed that is a node of the graph.                                  *)
C11_LineageHoldsPresentSeeds ==
    Queried => PresentSeeds \subseteq G_display.nodes

(* C12: for positive depths d1 <= d2 the lineage at depth d1 is contained  *)
(* in the lineage at depth d2, which is contained in the unbounded lineage *)
(* of the same graph and seeds.                                             *)
C12_DepthIsMonotonic ==
    (pc = "called" /\ depth_limit # None) =>
        LET d == depth_limit[1]
            deeper == filter_lineage(G_full, search_list, <<d + 1>>).nodes
            unbounded == filter_lineage(G_full, search_list, None).nodes
        IN /\ \A d1 \in 1..d :
                 filter_lineage(G_full, search_list, <<d1>>).nodes \subseteq G_display.nodes
           /\ G_display.nodes \subseteq deeper
           /\ deeper \subseteq unbounded

C12_Witness ==
    /\ pc = "called"
    /\ depth_limit = <<1>>
    /\ Range(search_list) \subseteq G_display.nodes
    /\ G_display.nodes # Range(search_list)
    /\ G_display.nodes # filter_lineage(G_full, search_list, <<2>>).nodes

C14_NoEdgesLineageIsPresentSeeds ==
    (Queried /\ df_edges = <<>>) =>
        /\ G_display.nodes =
              Range(search_list) \cap {doc.jobs[i].JOBNAME : i \in 1..Len(doc.jobs)}
        /\ Edges(G_display) = {}

(* C15: with an empty seed list the lineage has no node and no edge, for   *)
(* every graph and every depth.                                             *)
C15_NoSeedsNoLineage ==
    (pc = "called" /\ search_list = <<>>) =>
        /\ G_display.nodes = {}
        /\ Edges(G_display) = {}

C15_Witness ==
    /\ pc = "called"
    /\ search_list = <<>>
    /\ depth_limit # None
    /\ Edges(G_full) # {}

(* C16: the edge list holds exactly one record per (consumer job, real     *)
(* INCOND element, producer entry of that condition): its length is the    *)
(* number of pairs of a real INCOND element and a real OUTCOND element of  *)
(* the same name; a real input nobody produces contributes nothing.        *)
RealInSlots(jobs) ==
    UNION {{<<i, k>> : k \in {n \in 1..Len(jobs[i].INCOND) : jobs[i].INCOND[n].ODATE = "ODAT"}}
           : i \in 1..Len(jobs)}

RealOutSlots(jobs) ==
    UNION {{<<i, k>> : k \in {n \in 1..Len(jobs[i].OUTCOND) :
                                 /\ jobs[i].OUTCOND[n].SIGN = "+"
                                 /\ jobs[i].OUTCOND[n].ODATE = "ODAT"}}
           : i \in 1..Len(jobs)}

ProducerEntriesFor(jobs, slot) ==
    {o \in RealOutSlots(jobs) :
        jobs[o[1]].OUTCOND[o[2]].NAME = jobs[slot[1]].INCOND[slot[2]].NAME}

C16_OneEdgePerProducerEntry ==
    (Parsed /\ doc.wellformed) =>
        Len(df_edges) =
            Cardinality({p \in RealInSlots(doc.jobs) \X RealOutSlots(doc.jobs) :
                            p[2] \in ProducerEntriesFor(doc.jobs, p[1])})

C16_Witness ==
    /\ pc = "parsed"
    /\ doc.wellformed
    /\ \E s \in RealInSlots(doc.jobs) : Cardinality(ProducerEntriesFor(doc.jobs, s)) >= 2
    /\ \E s \in RealInSlots(doc.jobs) : ProducerEntriesFor(doc.jobs, s) = {}

(* C17: for the document with JOB1 producing (COND_A, "+", "ODAT") and    *)
(* JOB2 awaiting (COND_A, "ODAT"), parsing yields exactly the edge list    *)
(* [(JOB1, JOB2, COND_A)] and the lineage of the seeds [JOB2] has exactly  *)
(* the nodes JOB1 and JOB2.                                                 *)
C17_ExampleEdgeAndLineage ==
    (doc = [wellformed |-> TRUE, jobs |-> ExampleJobs]) =>
        /\ Parsed =>
              df_edges = <<[Source |-> NameJOB1, Target |-> NameJOB2, Condition |-> "COND_A"]>>
        /\ (pc = "called" /\ search_list = <<NameJOB2>>) =>
              G_display.nodes = {NameJOB1, NameJOB2}

C17_Witness ==
    /\ doc = [wellformed |-> TRUE, jobs |-> ExampleJobs]
    /\ pc = "called"
    /\ search_list = <<NameJOB2>>
    /\ depth_limit = None
    /\ Len(df_edges) = 1

(* C18: for every input document, one with a JOB element without name     *)
(* included, the run parse -> build -> lineage -> levels never ends with   *)
(* an error nobody handles.                                                 *)
C18_NoUnhandledError ==
    pc # "crashed"

(* C19: once built, the graph is never modified by a query: across every  *)
(* lineage selection and every level computation, first or repeated, its   *)
(* node set, edge set and labels stay as BuildGraph left them.             *)
C19_QueriesLeaveGraphAlone ==
    [][(Built /\ Built') => G_full' = G_full]_vars

C19_Witness ==
    /\ pc = "rendered"
    /\ search_list # <<>>
    /\ depth_limit # None
    /\ Edges(G_full) # {}
    /\ G_display.nodes # G_full.nodes
    /\ G_full = build_graph(df_edges, all_jobs(df_jobs))

(* C20: across any sequence of uploads, the graph in use after an upload   *)
(* holds exactly the nodes and edges derived from that upload's records:   *)
(* no node and no edge of an earlier upload is left in the job list, the   *)
(* edge list, the graph or the displayed graph.                            *)
DerivedNodes(jobs) == {jobs[i].JOBNAME : i \in 1..Len(jobs)}

DerivedPairs(jobs) == {<<t[1], t[2]>> : t \in ExpectedEdges(jobs)}

C20_NothingCarriesOver ==
    LET jobs == IF doc.wellformed THEN doc.jobs ELSE <<>>
    IN /\ {df_jobs[i].JobName : i \in 1..Len(df_jobs)} \subseteq DerivedNodes(jobs)
       /\ {<<r.Source, r.Target, r.Condition>> : r \in Range(df_edges)} \subseteq ExpectedEdges(jobs)
       /\ G_display.nodes \subseteq DerivedNodes(jobs)
       /\ Edges(G_display) \subseteq DerivedPairs(jobs)
       /\ IF Built
          THEN /\ G_full.nodes = DerivedNodes(jobs)
               /\ Edges(G_full) = DerivedPairs(jobs)
               /\ \A e \in Edges(G_full) : <<e[1], e[2], G_full.adj[e]>> \in ExpectedEdges(jobs)
          ELSE G_full = EmptyGraph

C20_Witness ==
    /\ pc = "rendered"
    /\ earlier_nodes \ G_full.nodes # {}
    /\ Edges(G_full) # {}
    /\ G_display = G_full

(* C21: parsing a well-formed document returns one job record per JOB      *)
(* element, in document order, each with the element's name: no job is     *)
(* dropped, merged or moved, a job without real conditions and a job that  *)
(* shares its name with another job included.                               *)
C21_JobListMirrorsDocument ==
    (Parsed /\ doc.wellformed) =>
        /\ Len(df_jobs) = Len(doc.jobs)
        /\ \A i \in 1..Len(doc.jobs) : df_jobs[i].JobName = doc.jobs[i].JOBNAME

C21_Witness ==
    /\ pc = "parsed"
    /\ doc.wellformed
    /\ Len(doc.jobs) = 2
    /\ doc.jobs[1].JOBNAME = doc.jobs[2].JOBNAME
    /\ doc.jobs[1].OUTCOND # <<>>
    /\ df_jobs[1].OutConditions = <<>>
    /\ df_jobs[2].InConditions = <<>>

(* C22: in the dashboard, with at least one seed selected the displayed    *)
(* graph is the lineage subgraph whatever the size of the graph; with no   *)
(* seed selected it is the full graph exactly when the node count is at    *)
(* most the limit of the variant (300 in app1, 500 in app10) and the empty *)
(* graph when the count is above it.                                        *)
C22_DisplayedGraphChoice ==
    pc = "filtered" =>
        LET n == Cardinality(G_full.nodes)
            limit == IF variant = "app1" THEN 300 ELSE 500
        IN /\ search_list # <<>> =>
                 G_display = filter_lineage(G_full, search_list, depth_limit)
           /\ (search_list = <<>> /\ n <= limit) => G_display = G_full
           /\ (search_list = <<>> /\ n > limit) => G_display = EmptyGraph

C22_Witness ==
    /\ pc = "filtered"
    /\ search_list = <<>>
    /\ variant = "app1"
    /\ Cardinality(G_full.nodes) = 300
    /\ G_display = G_full

(* C23: the set of derived edges does not depend on the order of the job   *)
(* records: every reordering of the JOB elements parses to the same edge   *)
(* set, so a consumer listed before its producer gets the same edge as one *)
(* listed after it.                                                         *)
Reorderings(n) == {f \in [1..n -> 1..n] : \A i, j \in 1..n : f[i] = f[j] => i = j}

Reordered(jobs, f) == [i \in 1..Len(jobs) |-> jobs[f[i]]]

EdgeSet(rows) == {<<r.Source, r.Target, r.Condition>> : r \in Range(rows)}

C23_EdgeSetIgnoresJobOrder ==
    (pc = "parsed" /\ doc.wellformed) =>
        \A f \in Reorderings(Len(doc.jobs)) :
            EdgeSet(parse_controlm_xml([wellformed |-> TRUE,
                                        jobs |-> Reordered(doc.jobs, f)]).edges)
                = EdgeSet(df_edges)

C23_Witness ==
    /\ pc = "parsed"
    /\ doc.wellformed
    /\ \E i \in 1..Len(doc.jobs), j \in 1..Len(doc.jobs) :
          /\ i < j
          /\ doc.jobs[i].JOBNAME # doc.jobs[j].JOBNAME
          /\ \E r \in Range(df_edges) :
                r.Target = doc.jobs[i].JOBNAME /\ r.Source = doc.jobs[j].JOBNAME

(* C24: a job that has one condition both as a real output and as a real  *)
(* input gets an edge from itself to itself, and a displayed graph that    *)
(* holds such a job is treated as cyclic: every node of it is on level 0.  *)
SelfFed(jobs) ==
    {jobs[i].JOBNAME : i \in
        {k \in 1..Len(jobs) :
            \E o \in Range(jobs[k].OUTCOND), n \in Range(jobs[k].INCOND) :
                /\ o.NAME = n.NAME
                /\ o.SIGN = "+" /\ o.ODATE = "ODAT"
                /\ n.ODATE = "ODAT"}}

C24_SelfFedJobLoopsAndFlattensLevels ==
    /\ (Parsed /\ doc.wellformed) =>
          \A n \in SelfFed(doc.jobs) :
              \E r \in Range(df_edges) : r.Source = n /\ r.Target = n
    /\ Built => \A n \in SelfFed(doc.jobs) : <<n, n>> \in Edges(G_full)
    /\ (pc = "rendered" /\ SelfFed(doc.jobs) \cap G_display.nodes # {}) =>
          /\ DOMAIN level_map = G_display.nodes
          /\ \A n \in G_display.nodes : level_map[n] = 0

C24_Witness ==
    /\ pc = "rendered"
    /\ \E n \in SelfFed(doc.jobs) \cap G_display.nodes :
          \E e \in Edges(G_display) : e[1] = n /\ e[2] # n /\ <<e[2], n>> \notin Edges(G_display)

(* C25: when a job name occurs in more than one job record the graph has  *)
(* a single node for it: the node count is the number of distinct job      *)
(* names, and the edges derived for every record of that name attach to    *)
(* that node.                                                               *)
C25_OneNodePerJobName ==
    Built =>
        LET names == {doc.jobs[i].JOBNAME : i \in 1..Len(doc.jobs)}
        IN /\ Cardinality(G_full.nodes) = Cardinality(names)
           /\ G_full.nodes = names
           /\ \A r \in Range(df_edges) :
                 /\ <<r.Source, r.Target>> \in Edges(G_full)
                 /\ r.Source \in G_full.nodes
                 /\ r.Target \in G_full.nodes

C25_Witness ==
    /\ pc = "built"
    /\ Len(doc.jobs) = 2
    /\ doc.jobs[1].JOBNAME = doc.jobs[2].JOBNAME
    /\ Cardinality(G_full.nodes) = 1
    /\ Len(df_edges) >= 1

(* C26: the lineage is closed under re-application: for every graph, seed  *)
(* list and depth (none or positive) the lineage of the lineage, for the   *)
(* same seeds and depth, has the node set and edge set of the lineage.     *)
C26_LineageOfLineageIsLineage ==
    pc = "called" =>
        LET twice == filter_lineage(G_display, search_list, depth_limit)
        IN /\ twice.nodes = G_display.nodes
           /\ Edges(twice) = Edges(G_display)

C26_Witness ==
    /\ pc = "called"
    /\ depth_limit = None
    /\ Edges(G_display) # {}
    /\ G_display.nodes # G_full.nodes
    /\ Cardinality(G_display.nodes) >= 2

(* C27: on a graph of n nodes the depth-bounded lineage with any depth     *)
(* d >= n - 1 has the node set and edge set of the unbounded lineage of    *)
(* the same seeds: ancestors/descendants and the radius-limited ego graphs *)
(* on the graph and its reverse agree once the bound covers the graph.     *)
C27_CoveringDepthIsUnbounded ==
    (pc = "called" /\ depth_limit = None) =>
        LET n == Cardinality(G_full.nodes)
        IN \A d \in {k \in (n - 1)..(n + 1) : k >= 1} :
              LET bounded == filter_lineage(G_full, search_list, <<d>>)
              IN /\ bounded.nodes = G_display.nodes
                 /\ Edges(bounded) = Edges(G_display)

C27_Witness ==
    /\ pc = "called"
    /\ depth_limit = None
    /\ Cardinality(G_full.nodes) >= 3
    /\ filter_lineage(G_full, search_list, <<Cardinality(G_full.nodes) - 2>>).nodes
          # G_display.nodes

(* C28: a seed is matched against the graph after its leading and         *)
(* trailing whitespace is removed: a seed that equals a node name only     *)
(* after trimming selects that node, and a node whose own name starts or   *)
(* ends with whitespace is never selected by a seed (it is in a lineage    *)
(* only as ancestor or descendant of a selected node).                      *)
HasOuterSpace(n) == n # <<>> /\ (n[1] = " " \/ n[Len(n)] = " ")

EqualsAfterTrimming(s, n) ==
    /\ ~HasOuterSpace(n)
    /\ \E i \in 1..(Len(s) + 1), j \in 0..Len(s) :
          /\ SubSeq(s, i, j) = n
          /\ \A k \in 1..Len(s) : (k < i \/ k > j) => s[k] = " "

SelectedBySeed(G, seeds) ==
    {n \in G.nodes : \E s \in Range(seeds) : EqualsAfterTrimming(s, n)}

C28_SeedsMatchAfterTrimming ==
    pc = "called" =>
        G_display.nodes =
            UNION {{m} \cup
                   (IF depth_limit = None
                    THEN TransAncestors(G_full, m) \cup TransDescendants(G_full, m)
                    ELSE WithinHops(Edges(G_full), {m}, depth_limit[1]) \cup
                         WithinHops(Flip(Edges(G_full)), {m}, depth_limit[1]))
                   : m \in SelectedBySeed(G_full, search_list)}

C28_Witness ==
    /\ pc = "called"
    /\ search_list = <<NameSpA>>
    /\ NameSpA \in G_full.nodes
    /\ NameA \in G_display.nodes
    /\ NameSpA \notin G_display.nodes

(* C29: in the login test the browser driver, once created, is closed      *)
(* exactly once on every path: after a successful login, after an element  *)
(* wait timeout and after any other error; when the creation itself fails  *)
(* nothing is closed and the test returns.                                  *)
C29_DriverClosedExactlyOnce ==
    /\ quits <= 1
    /\ quits = 1 => (l_pc = "done" /\ driver # "none")
    /\ l_pc = "done" => quits = (IF driver = "none" THEN 0 ELSE 1)
    /\ (l_pc = "done" /\ driver = "none") => l_raised = "none"
    /\ l_pc # "done" => ENABLED NextLogin

C29_Witness ==
    /\ l_pc = "done"
    /\ driver = "closed"
    /\ quits = 1
    /\ \E i \in 1..Len(l_out) : l_out[i] = "FAILURE: element timeout"
    /\ l_out[Len(l_out)] = "Browser closed."

(* C30: in the data-entry bot a blank line and a line that does not split  *)
(* into exactly two comma-separated fields are skipped, nothing is typed   *)
(* for them and the run goes on; every other line is typed, in file order; *)
(* and the number of the final "Successfully processed N records" message  *)
(* is the number of records typed.                                          *)
Commas(line) == Cardinality({k \in 1..Len(line) : line[k] = ","})

IsRecord(line) == Commas(line) = 1

TypedAreTheRecords ==
    LET records == SelectSeq(data_lines, IsRecord)
    IN /\ Len(typed) = Len(records)
       /\ \A k \in 1..Len(records) :
             typed[k] = full_entry(items(strip(records[k]))[1], items(strip(records[k]))[2])

C30_SkipsBadLinesAndReportsTyped ==
    (b_pc = "done" /\ reported # None) =>
        /\ TypedAreTheRecords
        /\ reported[1] = Len(typed)

====
